---- MODULE Spec2Model ----
(***************************************************************************)
(* Model of deepsphere/gnn_transformers.py: scaled_dot_product_attention,  *)
(* AddPositionEmbs, MultiHeadAttention and Graph_ViT.                      *)
(*                                                                         *)
(* A forward pass is recorded as a tape: the sequence of tensor operations *)
(* it executed, in execution order.  Node i of a tape is the tensor        *)
(* produced by operation i: its operation op, the sublayer or weight it    *)
(* used (id) at optimizer step ver, its operands a and b (indices of       *)
(* earlier nodes, 0 for none) and its shape.  The numeric kernels of the   *)
(* tensor library (matmul, softmax, dense, layer normalisation, conv1d)    *)
(* are uninterpreted: two tensors are equal iff they were computed by the  *)
(* same operations from the same inputs and the same weights.              *)
(***************************************************************************)
EXTENDS Integers, Sequences, FiniteSets, TLC

\* ---- bounds of the model ----
MaxP == 2
MaxKeyDim == 2
MaxHeads == 2
MaxLayers == 2
MaxChannels == 1
MaxInputs == 3
MaxBuilds == 2
MaxSteps == 1
MaxDModel == 10
MaxMhaHeads == 3
MaxSeq == 2
MaxMask == 1

PValues == -1 .. MaxP
LayerCounts == -1 .. MaxLayers

VARIABLES vit, args, weights, step, mha, lastOp, result, repeated

vars == <<vit, args, weights, step, mha, lastOp, result, repeated>>

\* ---- tensors ----
Node(op, id, ver, a, b, shape) ==
    [op |-> op, id |-> id, ver |-> ver, a |-> a, b |-> b, shape |-> shape]

\* the input tensors the layer is tried on: input id is a batch of id signals
\* on a graph of 8 * (id + 1) nodes
InputShape(id, channels) == <<id, 8 * (id + 1), channels>>

InputTape(id, shape) == <<Node("input", id, 0, 0, 0, shape)>>

RECURSIVE Prod(_)
Prod(s) == IF s = <<>> THEN 1 ELSE Head(s) * Prod(Tail(s))

RECURSIVE Pow4(_)
Pow4(p) == IF p <= 0 THEN 1 ELSE 4 * Pow4(p - 1)

\* the target shape of a reshape with its -1 dimension replaced
RECURSIVE Infer(_, _)
Infer(target, inferred) ==
    IF target = <<>> THEN <<>>
    ELSE <<IF Head(target) = -1 THEN inferred ELSE Head(target)>>
         \o Infer(Tail(target), inferred)

\* tf.reshape: one dimension of the target may be -1 and is inferred.
Reshape(t, x, target) ==
    LET known == Prod(Infer(target, 1))
    IN Append(t, Node("reshape", 0, 0, x, 0,
                      Infer(target, Prod(t[x].shape) \div known)))

RECURSIVE Permute(_, _)
Permute(shape, perm) ==
    IF perm = <<>> THEN <<>>
    ELSE <<shape[Head(perm) + 1]>> \o Permute(shape, Tail(perm))

\* tf.transpose with a 0-based permutation.
Transpose(t, x, perm) ==
    Append(t, Node("transpose", 0, 0, x, 0, Permute(t[x].shape, perm)))

\* tf.matmul(a, b, transpose_b) on the two innermost dimensions.
MatMul(t, a, b, transpose_b) ==
    LET sa == t[a].shape
        sb == t[b].shape
        cols == IF transpose_b THEN sb[Len(sb) - 1] ELSE sb[Len(sb)]
    IN Append(t, Node("matmul", 0, 0, a, b,
                      SubSeq(sa, 1, Len(sa) - 1) \o <<cols>>))

RECURSIVE Broadcast(_, _)
Broadcast(sa, sb) ==
    IF sa = <<>> THEN <<>>
    ELSE <<IF Head(sa) = 1 THEN Head(sb) ELSE Head(sa)>>
         \o Broadcast(Tail(sa), Tail(sb))

\* elementwise a + b with broadcasting of dimensions of size 1.
TAdd(t, a, b) ==
    Append(t, Node("add", 0, 0, a, b, Broadcast(t[a].shape, t[b].shape)))

\* tf.keras.layers.Dense(units) of block idx, applied to x.
Dense(t, name, idx, ver, x, units) ==
    Append(t, Node(name, idx, ver, x, 0,
                   SubSeq(t[x].shape, 1, Len(t[x].shape) - 1) \o <<units>>))

LayerNormalization(t, name, idx, ver, x) ==
    Append(t, Node(name, idx, ver, x, 0, t[x].shape))

Activation(t, name, x) == Append(t, Node(name, 0, 0, x, 0, t[x].shape))

\* an elementwise operation on the last node of t
Elementwise(t, op, id) == Append(t, Node(op, id, 0, Len(t), 0, t[Len(t)].shape))

\* mask 0 is None.  The output is the last node of the returned tape, the
\* attention weights the one before it.
scaled_dot_product_attention(t, q, k, v, mask) ==
    LET dk == t[k].shape[Len(t[k].shape)]
        scaled_attention_logits == Elementwise(MatMul(t, q, k, TRUE), "div_sqrt", dk)
        masked == IF mask # 0
                  THEN Elementwise(scaled_attention_logits, "add_mask", mask)
                  ELSE scaled_attention_logits
        attention_weights == Elementwise(masked, "softmax", 0)
    IN MatMul(attention_weights, Len(attention_weights), v, FALSE)

\* ---- AddPositionEmbs ----
NoWeight == [id |-> 0, shape |-> <<>>]

AddPositionEmbs_build(inputs_shape) == <<1, inputs_shape[2], inputs_shape[3]>>

AddPositionEmbs_call(t, pos_embedding, ver, inputs) ==
    LET t1 == Append(t, Node("pos_embedding", pos_embedding.id, ver, 0, 0,
                             pos_embedding.shape))
    IN TAdd(t1, inputs, Len(t1))

\* ---- MultiHeadAttention ----
NoMha ==
    [state |-> "none", idx |-> 0, d_model |-> 0, num_heads |-> 0,
     use_norm |-> FALSE, depth |-> 0, has_layer_norm1 |-> FALSE,
     has_layer_norm2 |-> FALSE, activation |-> ""]

\* the assertion with its operands swapped
MHA_init_swapped(idx, d_model, num_heads, use_norm, activation) ==
    IF num_heads % d_model # 0
    THEN [NoMha EXCEPT !.state = "AssertionError", !.idx = idx,
                       !.d_model = d_model, !.num_heads = num_heads,
                       !.use_norm = use_norm]
    ELSE [state |-> "constructed", idx |-> idx, d_model |-> d_model,
          num_heads |-> num_heads, use_norm |-> use_norm,
          depth |-> d_model \div num_heads,
          has_layer_norm1 |-> use_norm, has_layer_norm2 |-> use_norm,
          activation |-> activation]

MultiHeadAttention_init(idx, d_model, num_heads, use_norm, activation) ==
    IF d_model % num_heads # 0
    THEN [NoMha EXCEPT !.state = "AssertionError", !.idx = idx,
                       !.d_model = d_model, !.num_heads = num_heads,
                       !.use_norm = use_norm]
    ELSE [state |-> "constructed", idx |-> idx, d_model |-> d_model,
          num_heads |-> num_heads, use_norm |-> use_norm,
          depth |-> d_model \div num_heads,
          has_layer_norm1 |-> use_norm, has_layer_norm2 |-> use_norm,
          activation |-> activation]

split_heads(self, t, x, batch_size) ==
    LET t1 == Reshape(t, x, <<batch_size, -1, self.num_heads, self.depth>>)
    IN Transpose(t1, Len(t1), <<0, 2, 1, 3>>)

\* lines 165-174: concat_attention is the last node of t
MHA_feed_forward(self, t, ver) ==
    LET t1 == LayerNormalization(t, "layer_norm2", self.idx, ver, Len(t))
        t2 == Dense(t1, "dense", self.idx, ver, Len(t1), self.d_model)
        t3 == Activation(t2, self.activation, Len(t2))
    IN [status |-> "ok", tape |-> TAdd(t3, Len(t3), Len(t))]

\* lines 162-166: the merged attention is the last node of t
MHA_residual(self, t, inputs, ver) ==
    IF ~self.has_layer_norm2
    THEN [status |-> "AttributeError", tape |-> TAdd(t, inputs, Len(t))]
    ELSE MHA_feed_forward(self, TAdd(t, inputs, Len(t)), ver)

\* lines 156-160: the attention output is the last node of t
MHA_merge(self, t, inputs, ver) ==
    LET batch_size == t[inputs].shape[1]
        scaled_attention == Transpose(t, Len(t), <<0, 2, 1, 3>>)
    IN MHA_residual(self,
                    Reshape(scaled_attention, Len(scaled_attention),
                            <<batch_size, -1, self.d_model>>),
                    inputs, ver)

\* line 154: the heads of q, k, v are the nodes Len(t) - 4, Len(t) - 2, Len(t)
MHA_attend(self, t, inputs, mask, ver) ==
    MHA_merge(self,
              scaled_dot_product_attention(t, Len(t) - 4, Len(t) - 2, Len(t), mask),
              inputs, ver)

\* lines 148-150: q, k, v are the last three nodes of t
MHA_heads(self, t, inputs, mask, ver) ==
    LET batch_size == t[inputs].shape[1]
    IN MHA_attend(self,
                  split_heads(self,
                      split_heads(self,
                          split_heads(self, t, Len(t) - 2, batch_size),
                          Len(t) - 1, batch_size),
                      Len(t), batch_size),
                  inputs, mask, ver)

\* lines 144-146, inputs the node the name inputs is bound to
MHA_projections(self, t, inputs, mask, ver) ==
    MHA_heads(self,
              Dense(Dense(Dense(t, "wq", self.idx, ver, inputs, self.d_model),
                          "wk", self.idx, ver, inputs, self.d_model),
                    "wv", self.idx, ver, inputs, self.d_model),
              inputs, mask, ver)

\* the block with the result of layer_norm1 not bound to inputs
MHA_call_norm_dropped(self, t, inputs, mask, ver) ==
    IF ~self.has_layer_norm1
    THEN [status |-> "AttributeError", tape |-> t]
    ELSE MHA_projections(self,
                         LayerNormalization(t, "layer_norm1", self.idx, ver, inputs),
                         inputs, mask, ver)

\* self.call(inputs, mask) continuing tape t, inputs a node of t.  Line 142
\* rebinds inputs to the normalised tensor.  The output is the last node of
\* the returned tape.
MultiHeadAttention_call(self, t, inputs, mask, ver) ==
    IF ~self.has_layer_norm1
    THEN [status |-> "AttributeError", tape |-> t]
    ELSE MHA_projections(self,
                         LayerNormalization(t, "layer_norm1", self.idx, ver, inputs),
                         Len(t) + 1, mask, ver)

\* ---- Graph_ViT ----
NoVit ==
    [state |-> "none", p |-> 0, embed_filter_size |-> 0, key_dim |-> 0,
     num_heads |-> 0, embedding_size |-> 0, positional_encoding |-> FALSE,
     n_layers |-> 0, activation |-> "", layer_norm |-> FALSE,
     has_pos_encoder |-> FALSE, mha_layers |-> <<>>]

NoArgs ==
    [p |-> 0, key_dim |-> 0, num_heads |-> 0, positional_encoding |-> FALSE,
     n_layers |-> 0, layer_norm |-> FALSE]

\* the check on p written as the error message words it ("at least 1")
GraphViT_init_at_least_1(p, key_dim, num_heads, positional_encoding, n_layers, activation, layer_norm) ==
    IF ~(p >= 1) THEN [NoVit EXCEPT !.state = "IOError"]
    ELSE IF ~(n_layers >= 1) THEN [NoVit EXCEPT !.state = "AssertionError"]
    ELSE
    LET embedding_size == key_dim * num_heads
        layers == [i \in 1 .. n_layers |->
                     MultiHeadAttention_init(i, embedding_size, num_heads,
                                             layer_norm, activation)]
    IN [state |-> "constructed", p |-> p, embed_filter_size |-> Pow4(p),
        key_dim |-> key_dim, num_heads |-> num_heads,
        embedding_size |-> embedding_size,
        positional_encoding |-> positional_encoding, n_layers |-> n_layers,
        activation |-> activation, layer_norm |-> layer_norm,
        has_pos_encoder |-> positional_encoding, mha_layers |-> layers]

GraphViT_init(p, key_dim, num_heads, positional_encoding, n_layers, activation, layer_norm) ==
    IF ~(p > 1) THEN [NoVit EXCEPT !.state = "IOError"]
    ELSE IF ~(n_layers >= 1) THEN [NoVit EXCEPT !.state = "AssertionError"]
    ELSE
    LET embedding_size == key_dim * num_heads
        layers == [i \in 1 .. n_layers |->
                     MultiHeadAttention_init(i, embedding_size, num_heads,
                                             layer_norm, activation)]
    IN IF \E i \in 1 .. n_layers : layers[i].state # "constructed"
       THEN [NoVit EXCEPT !.state = "AssertionError"]
       ELSE [state |-> "constructed", p |-> p, embed_filter_size |-> Pow4(p),
             key_dim |-> key_dim, num_heads |-> num_heads,
             embedding_size |-> embedding_size,
             positional_encoding |-> positional_encoding,
             n_layers |-> n_layers, activation |-> activation,
             layer_norm |-> layer_norm,
             has_pos_encoder |-> positional_encoding, mha_layers |-> layers]

\* the owned weight tensors: the Conv1D kernel of self.embed and the
\* pos_embedding of self.pos_encoder; id 0 is "not allocated", nEmbed and
\* nPos count the allocations made so far.
NoWeights ==
    [embed |-> NoWeight, pos_embedding |-> NoWeight, nEmbed |-> 0, nPos |-> 0]

\* self.embed.build: a new kernel (kernel_size, channels, filters)
Conv1D_build(self, w, input_shape) ==
    [w EXCEPT !.nEmbed = @ + 1,
              !.embed = [id |-> w.nEmbed + 1,
                         shape |-> <<self.embed_filter_size, input_shape[3],
                                     self.embedding_size>>]]

\* the divisibility check made after the patch embedding is built
GraphViT_build_check_late(self, w, input_shape) ==
    LET n_nodes == input_shape[2]
        w1 == Conv1D_build(self, w, input_shape)
    IN IF n_nodes % self.embed_filter_size # 0
       THEN [status |-> "IOError", w |-> w1]
       ELSE [status |-> "ok", w |-> w1]

GraphViT_build(self, w, input_shape) ==
    LET n_nodes == input_shape[2]
        w1 == Conv1D_build(self, w, input_shape)
        w2 == IF self.positional_encoding
              THEN [w1 EXCEPT !.nPos = @ + 1,
                              !.pos_embedding =
                                  [id |-> w1.nPos + 1,
                                   shape |-> AddPositionEmbs_build(input_shape)]]
              ELSE w1
    IN IF n_nodes % self.embed_filter_size # 0
       THEN [status |-> "IOError", w |-> w]
       ELSE [status |-> "ok", w |-> w2]

\* self.embed(inputs): kernel_size = strides = embed_filter_size, padding "valid"
Conv1D_call(self, t, w, ver, inputs) ==
    Append(t, Node("embed", w.embed.id, ver, inputs, 0,
                   <<t[inputs].shape[1],
                     (t[inputs].shape[2] - self.embed_filter_size)
                         \div self.embed_filter_size + 1,
                     w.embed.shape[3]>>))

\* for mha in self.mha_layers: x = mha(x)
RECURSIVE ApplyLayers(_, _, _)
ApplyLayers(layers, t, ver) ==
    IF layers = <<>> THEN [status |-> "ok", tape |-> t]
    ELSE LET r == MultiHeadAttention_call(Head(layers), t, Len(t), 0, ver)
         IN IF r.status # "ok" THEN r
            ELSE ApplyLayers(Tail(layers), r.tape, ver)

\* a call that keeps state: the first call after a build or an update runs on
\* other weights than the calls after it
GraphViT_call_stateful(self, w, ver, inputs) ==
    LET v == IF lastOp = "call" THEN ver + 1 ELSE ver
    IN ApplyLayers(self.mha_layers, Conv1D_call(self, inputs, w, v, 1), v)

\* self.call(inputs), inputs the one-node tape of the input tensor
GraphViT_call(self, w, ver, inputs) ==
    ApplyLayers(self.mha_layers, Conv1D_call(self, inputs, w, ver, 1), ver)

\* the outcome of the last operation: how it ended, the shape (and mask) it
\* was given, and for a call the operations it executed
NoResult == [status |-> "none", input_shape |-> <<>>, mask |-> 0, tape |-> <<>>]

\* ---- the state machine ----
Init ==
    /\ vit = NoVit
    /\ args = NoArgs
    /\ weights = NoWeights
    /\ step = 0
    /\ mha = NoMha
    /\ lastOp = "init"
    /\ result = NoResult
    /\ repeated = FALSE

\* Graph_ViT(p, key_dim, num_heads, positional_encoding, n_layers, "relu", layer_norm)
Construct ==
    /\ vit.state = "none" /\ mha.state = "none"
    /\ \E p \in PValues, key_dim \in 1 .. MaxKeyDim, num_heads \in 1 .. MaxHeads,
          positional_encoding \in BOOLEAN, n_layers \in LayerCounts,
          layer_norm \in BOOLEAN :
          /\ vit' = GraphViT_init(p, key_dim, num_heads, positional_encoding,
                                  n_layers, "relu", layer_norm)
          /\ args' = [p |-> p, key_dim |-> key_dim, num_heads |-> num_heads,
                      positional_encoding |-> positional_encoding,
                      n_layers |-> n_layers, layer_norm |-> layer_norm]
          /\ result' = [NoResult EXCEPT !.status = vit'.state]
    /\ lastOp' = "construct"
    /\ repeated' = FALSE
    /\ UNCHANGED <<weights, step, mha>>

\* layer.build(input_shape), input_shape the shape of an input tensor
Build ==
    /\ vit.state = "constructed"
    /\ weights.nEmbed < MaxBuilds
    /\ \E id \in 1 .. MaxInputs, c \in 1 .. MaxChannels :
          LET r == GraphViT_build(vit, weights, InputShape(id, c))
          IN /\ weights' = r.w
             /\ result' = [NoResult EXCEPT !.status = r.status,
                                           !.input_shape = InputShape(id, c)]
    /\ lastOp' = "build"
    /\ repeated' = FALSE
    /\ UNCHANGED <<vit, args, step, mha>>

\* layer.call(inputs) on a built layer, inputs a tensor the patch embedding accepts
Call ==
    /\ vit.state = "constructed"
    /\ weights.embed.id # 0
    /\ \E id \in 1 .. MaxInputs :
          LET shape == InputShape(id, weights.embed.shape[2])
              r == GraphViT_call(vit, weights, step, InputTape(id, shape))
          IN /\ shape[2] >= vit.embed_filter_size
             /\ result' = [status |-> r.status, input_shape |-> shape,
                           mask |-> 0, tape |-> r.tape]
             /\ repeated' = (lastOp = "call" /\ result.input_shape = shape)
    /\ lastOp' = "call"
    /\ UNCHANGED <<vit, args, weights, step, mha>>

\* the external optimizer updates every weight between two forward passes
OptimizerStep ==
    /\ vit.state = "constructed"
    /\ weights.embed.id # 0
    /\ step < MaxSteps
    /\ step' = step + 1
    /\ lastOp' = "optimizer"
    /\ result' = NoResult
    /\ repeated' = FALSE
    /\ UNCHANGED <<vit, args, weights, mha>>

\* MultiHeadAttention(d_model, num_heads, use_norm) on its own
ConstructMHA ==
    /\ vit.state = "none" /\ mha.state = "none"
    /\ \E d_model \in 1 .. MaxDModel, num_heads \in 1 .. MaxMhaHeads,
          use_norm \in BOOLEAN :
          /\ mha' = MultiHeadAttention_init(0, d_model, num_heads, use_norm, "relu")
          /\ result' = [NoResult EXCEPT !.status = mha'.state]
    /\ lastOp' = "construct_mha"
    /\ repeated' = FALSE
    /\ UNCHANGED <<vit, args, weights, step>>

\* block.call(inputs, mask) on inputs of shape (batch, seq_len, d_model)
CallMHA ==
    /\ mha.state = "constructed"
    /\ \E id \in 1 .. MaxInputs, s \in 1 .. MaxSeq, mask \in 0 .. MaxMask :
          LET shape == <<id, s, mha.d_model>>
              r == MultiHeadAttention_call(mha, InputTape(id, shape), 1, mask, 0)
          IN result' = [status |-> r.status, input_shape |-> shape,
                        mask |-> mask, tape |-> r.tape]
    /\ lastOp' = "call_mha"
    /\ repeated' = FALSE
    /\ UNCHANGED <<vit, args, weights, step, mha>>

Next ==
    \/ Construct
    \/ Build
    \/ Call
    \/ OptimizerStep
    \/ ConstructMHA
    \/ CallMHA

Spec == Init /\ [][Next]_vars

\* ---- properties ----
\* the nodes of tape t computed by operation op
Ops(t, op) == {i \in 1 .. Len(t) : t[i].op = op}

Min(S) == CHOOSE i \in S : \A j \in S : i <= j

Max(S) == CHOOSE i \in S : \A j \in S : i >= j

\* the tensor a node is a rearrangement (reshape, transpose) of
RECURSIVE Base(_, _)
Base(t, i) ==
    IF t[i].op \in {"reshape", "transpose"} THEN Base(t, t[i].a) ELSE i

C2_BuildChecksFirst ==
    [][lastOp' = "build" =>
          LET n_nodes == result'.input_shape[2]
              bad == n_nodes % Pow4(vit.p) # 0
          IN /\ result'.status = (IF bad THEN "IOError" ELSE "ok")
             /\ bad => weights' = weights]_vars

C2_Witness ==
    /\ lastOp = "build"
    /\ result.status = "IOError"
    /\ weights = NoWeights

\* C3: constructing MultiHeadAttention(d_model, num_heads) fails iff
\* d_model mod num_heads # 0 (so for d_model = 10, num_heads = 3); when it
\* succeeds depth = d_model / num_heads and num_heads * depth = d_model.
C3_HeadsDivideModel ==
    mha.state # "none" =>
        /\ mha.state \in {"constructed", "AssertionError"}
        /\ (mha.state = "AssertionError") <=> (mha.d_model % mha.num_heads # 0)
        /\ mha.state = "constructed" =>
               /\ mha.depth = mha.d_model \div mha.num_heads
               /\ mha.num_heads * mha.depth = mha.d_model
        /\ (mha.d_model = 10 /\ mha.num_heads = 3) => mha.state = "AssertionError"

C3_Witness ==
    mha.state = "AssertionError" /\ mha.d_model = 10 /\ mha.num_heads = 3

\* C4: with positional_encoding = True every call adds the positional
\* embedding to the patch embedding exactly once, right after the patch
\* embedding and before the first attention block; with positional_encoding =
\* False no positional embedding is added and the patch embedding feeds the
\* first attention block.
C4_PositionalAddedOnce ==
    lastOp = "call" =>
        LET t == result.tape
        IN /\ t[2].op = "embed"
           /\ IF vit.positional_encoding
              THEN /\ Cardinality(Ops(t, "pos_embedding")) = 1
                   /\ Len(t) >= 4
                   /\ t[3].op = "pos_embedding"
                   /\ t[4].op = "add" /\ t[4].a = 2 /\ t[4].b = 3
                   /\ Len(t) >= 5 => t[5].a = 4
              ELSE /\ Ops(t, "pos_embedding") = {}
                   /\ Len(t) >= 3 => t[3].a = 2

\* C5: after a successful build with positional encoding enabled the
\* positional embedding has shape (1, n_nodes / 4^p, key_dim * num_heads).
C5_PosEmbeddingShape ==
    (lastOp = "build" /\ result.status = "ok" /\ vit.positional_encoding) =>
        weights.pos_embedding.shape =
            <<1, result.input_shape[2] \div Pow4(vit.p),
              vit.key_dim * vit.num_heads>>

\* C6: a call of a block constructed with use_norm = False (or of a Graph_ViT
\* constructed with layer_norm = False) completes with an output and applies
\* no normalisation.
C6_NoNormCallCompletes ==
    /\ (lastOp = "call_mha" /\ ~mha.use_norm) =>
           /\ result.status = "ok"
           /\ Ops(result.tape, "layer_norm1") = {}
           /\ Ops(result.tape, "layer_norm2") = {}
    /\ (lastOp = "call" /\ ~vit.layer_norm) =>
           /\ result.status = "ok"
           /\ Ops(result.tape, "layer_norm1") = {}
           /\ Ops(result.tape, "layer_norm2") = {}

\* C7: a constructed Graph_ViT has embed_filter_size = 4^p and embedding_size =
\* key_dim * num_heads, and on an input (batch, n_nodes, channels) with n_nodes
\* divisible by 4^p the patch embedding and the layer's output both have shape
\* (batch, n_nodes / 4^p, embedding_size).
C7_OutputShape ==
    vit.state = "constructed" =>
        /\ vit.embed_filter_size = Pow4(args.p)
        /\ vit.embedding_size = args.key_dim * args.num_heads
        /\ (lastOp = "call" /\ result.input_shape[2] % Pow4(args.p) = 0) =>
               LET t == result.tape
                   expected == <<result.input_shape[1],
                                 result.input_shape[2] \div Pow4(args.p),
                                 args.key_dim * args.num_heads>>
               IN /\ t[2].shape = expected
                  /\ result.status = "ok"
                  /\ t[Len(t)].op = "add"
                  /\ t[Len(t)].shape = expected

C9_AllocatedOnce == weights.nEmbed <= 1 /\ weights.nPos <= 1

\* C10: a block with use_norm = True computes n = layer_norm1(x), the merged
\* attention a over the wq, wk, wv projections of n with the caller's mask,
\* s = n + a, and returns activation(dense(layer_norm2(s))) + s, in this
\* order; Graph_ViT calls its blocks without a mask.
C10_BlockDataFlow ==
    /\ (lastOp = "call_mha" /\ mha.use_norm) =>
           LET t == result.tape
               n == Min(Ops(t, "layer_norm1"))
               q == Min(Ops(t, "wq"))
               k == Min(Ops(t, "wk"))
               v == Min(Ops(t, "wv"))
               m1 == Min(Ops(t, "matmul"))
               m2 == Max(Ops(t, "matmul"))
               sc == Min(Ops(t, "div_sqrt"))
               sm == Min(Ops(t, "softmax"))
               s == Min(Ops(t, "add"))
               n2 == Min(Ops(t, "layer_norm2"))
               d == Min(Ops(t, "dense"))
               act == Min(Ops(t, "relu"))
               out == Max(Ops(t, "add"))
           IN /\ result.status = "ok"
              /\ \A op \in {"layer_norm1", "wq", "wk", "wv", "div_sqrt",
                            "softmax", "layer_norm2", "dense", "relu"} :
                     Cardinality(Ops(t, op)) = 1
              /\ Cardinality(Ops(t, "matmul")) = 2
              /\ Cardinality(Ops(t, "add")) = 2
              /\ n = 2 /\ t[n].a = 1
              /\ t[q].a = n /\ t[k].a = n /\ t[v].a = n
              /\ Base(t, t[m1].a) = q /\ Base(t, t[m1].b) = k
              /\ t[sc].a = m1 /\ t[sc].id = mha.d_model \div mha.num_heads
              /\ IF result.mask = 0
                 THEN Ops(t, "add_mask") = {} /\ t[sm].a = sc
                 ELSE \E am \in Ops(t, "add_mask") :
                          /\ Ops(t, "add_mask") = {am}
                          /\ t[am].a = sc /\ t[am].id = result.mask
                          /\ t[sm].a = am
              /\ t[m2].a = sm /\ Base(t, t[m2].b) = v
              /\ t[s].a = n /\ Base(t, t[s].b) = m2
              /\ t[t[s].b].shape = result.input_shape
              /\ m2 < s /\ s < n2
              /\ t[n2].a = s
              /\ t[d].a = n2
              /\ t[act].a = d
              /\ t[out].a = act /\ t[out].b = s
              /\ out = Len(t)
    /\ lastOp = "call" => Ops(result.tape, "add_mask") = {}

C10_Witness ==
    /\ lastOp = "call_mha"
    /\ mha.use_norm
    /\ mha.num_heads > 1
    /\ result.mask # 0
    /\ result.status = "ok"

====
